---- MODULE Spec2Model ----
(***************************************************************************)
(* A model of rules_server/models.py: the Ruleset / Node / Rule tables,    *)
(* the recursive evaluation Node.calc / Rule.calc, the per-applicant       *)
(* assessment Ruleset.calc, the diagnostic Ruleset.sql, the payload        *)
(* flattening Ruleset.flattened and the type index of SyntaxSchema.        *)
(*                                                                         *)
(* Encoding of Python values.  A dict is a function (a record) keyed by    *)
(* strings.  A list is a sequence.  None is the record [none |-> TRUE].    *)
(* So that the elements of one list are all records, a list nested in a    *)
(* list is written [list |-> s] and a text in a list [text |-> t].  A SQL  *)
(* column value is a string, SqlNull standing for NULL.  A raised          *)
(* exception is a record with a field "raise" naming its class.            *)
(***************************************************************************)
EXTENDS Integers, Sequences, FiniteSets, TLC

VARIABLES
    nodes,      \* the Node table: id -> row
    rules,      \* the Rule table: id -> row
    payload,    \* the application payload object the handlers are given
    validated,  \* whether Ruleset.validate has passed on the payload object
    calls,      \* the handler calls made on the payload, with their outcomes
    compiled,   \* the records handed to Ruleset.values_from_json, in order
    heap,       \* flattened: the object store, address -> dict
    records,    \* flattened: the addresses of the records yielded so far
    popped,     \* flattened: the applicants list popped from the payload
    before,     \* flattened: the records' values before the last mutation
    lastMut,    \* flattened: the record the last mutation went through
    schema,     \* SyntaxSchema.code: the properties walked, in walk order
    index       \* the outcome of SyntaxSchema.data_types

vars == <<nodes, rules, payload, validated, calls, compiled,
          heap, records, popped, before, lastMut, schema, index>>

treeVars == <<nodes, rules, payload, validated, calls, compiled>>
flatVars == <<heap, records, popped, before, lastMut>>
typeVars == <<schema, index>>

----------------------------------------------------------------------------
(* Bounds of the model *)

MaxNodes == 3
MaxRules == 2
MaxApplicants == 2
MaxCalls == 2

(* the primary keys of the rows of the two tables *)
NodeIds == DOMAIN nodes
RuleIds == DOMAIN rules

----------------------------------------------------------------------------
(* Values *)

None == [none |-> TRUE]
SqlNull == "NULL"
NullId == 0
RulesetId == 1

IsRaise(r) == "raise" \in DOMAIN r

Min(S) == CHOOSE m \in S : \A x \in S : m <= x

RECURSIVE Sorted(_)
Sorted(S) == IF S = {} THEN <<>> ELSE <<Min(S)>> \o Sorted(S \ {Min(S)})

(* F applied to a value that is computed once *)
Let(value, F(_)) == F(value)

(* d.update(a) *)
Update(d, a) ==
    [k \in DOMAIN d \cup DOMAIN a |-> IF k \in DOMAIN a THEN a[k] ELSE d[k]]

(* d without key k: what is left of d after d.pop(k) *)
Without(d, k) == [j \in DOMAIN d \ {k} |-> d[j]]

----------------------------------------------------------------------------
(* The tables *)

(* self.node_set.all() of a Node: its child Nodes, in primary-key order *)
ChildNodes(n) == Sorted({c \in NodeIds : nodes[c].parent = n})

(* self.rule_set.all() of a Node: its own Rules, in primary-key order *)
RulesOf(n) == Sorted({r \in RuleIds : rules[r].node = n})

(* self.node_set.all() of the Ruleset: the Nodes whose ruleset key is set *)
RulesetNodes == Sorted({n \in NodeIds : nodes[n].ruleset = RulesetId})

(* self.node_set.filter(parent__isnull=True) of the Ruleset *)
RootNodes ==
    Sorted({n \in NodeIds :
              nodes[n].ruleset = RulesetId /\ nodes[n].parent = NullId})

----------------------------------------------------------------------------
(* Rule.calc *)

RuleCodes == {"pass_until", "income_test", "malformed"}

(* cursor.execute(sql, source_data); cursor.fetchone(): the row the rule's  *)
(* query body gives on the applicant's value sources, or a failure.         *)
Execute(code, source_data) ==
    CASE code = "pass_until" ->
           [eligible |-> TRUE, explanation |-> "ok",
            end_date |-> "2020-12-31", normal |-> "t",
            description |-> SqlNull, limitation_explanation |-> SqlNull]
      [] code = "income_test" ->
           IF "income" \notin DOMAIN source_data
           THEN [raise |-> "ProgrammingError"]
           ELSE IF source_data.income = 0
           THEN [eligible |-> TRUE, explanation |-> "within limit",
                 end_date |-> SqlNull, normal |-> SqlNull,
                 description |-> "", limitation_explanation |-> SqlNull]
           ELSE [eligible |-> FALSE, explanation |-> "over limit",
                 end_date |-> SqlNull, normal |-> "f",
                 description |-> "over income",
                 limitation_explanation |-> SqlNull]
      [] OTHER -> [raise |-> "ProgrammingError"]

(* Python truth of a column value *)
Truthy(col) == col \notin {SqlNull, ""}

RuleCalc(r, source_clause, source_data) ==
    LET findings == Execute(rules[r].code, source_data)
    IN  IF IsRaise(findings)
        THEN [raise |-> "DataError", rule |-> rules[r].name]
        ELSE LET limitation ==
                   [end_date |-> findings.end_date, normal |-> findings.normal,
                    description |-> findings.description,
                    explanation |-> findings.limitation_explanation]
             IN  [eligible |-> findings.eligible,
                  explanation |-> findings.explanation,
                  limitation |->
                      IF ~Truthy(limitation.end_date)
                         /\ ~Truthy(limitation.description)
                      THEN None ELSE limitation]

----------------------------------------------------------------------------
(* Node.calc *)

(* Python truth of a child's limitation: a Rule's is None or a dict with   *)
(* four keys, a Node's is a list, false when empty                         *)
LimTruthy(kind, l) == IF kind = "node" THEN Len(l) > 0 ELSE l # None

CombineAny(requires_all, eligibility, e) == eligibility \/ e

(* eligibility &= e  /  eligibility |= e *)
Combine(requires_all, eligibility, e) ==
    IF requires_all THEN eligibility /\ e ELSE eligibility \/ e

(* the value appended to node_result['limitation'] for a child result *)
LimEntry(kind, res) ==
    IF kind = "node" THEN [list |-> res.limitation] ELSE res.limitation

(* the value appended to node_result['explanation'] for a child result *)
ExplEntry(kind, res) ==
    IF kind = "node" THEN [list |-> res.explanation]
    ELSE [text |-> res.explanation]

(* whether the loop body appends the child's limitation *)
KeepsLimitationAlways(kind, res) == LimTruthy(kind, res.limitation)

KeepsLimitation(kind, res) == res.eligible /\ LimTruthy(kind, res.limitation)

(* one pass of a loop body of Node.calc on the result of a child *)
Absorb(requires_all, acc, kind, name, res) ==
    [eligible |-> Combine(requires_all, acc.eligible, res.eligible),
     explanation |-> Append(acc.explanation, ExplEntry(kind, res)),
     limitation |->
         IF KeepsLimitation(kind, res)
         THEN Append(acc.limitation, LimEntry(kind, res))
         ELSE acc.limitation,
     subfindings |-> Update(acc.subfindings, name :> res)]

(* the loops with a handler around each child's call *)
RECURSIVE CalcLoopCatching(_, _, _, _)
CalcLoopCatching(requires_all, acc, items, i) ==
    IF i > Len(items) THEN acc
    ELSE CalcLoopCatching(
             requires_all,
             Absorb(requires_all, acc, items[i].kind, items[i].name,
                    IF IsRaise(items[i].res)
                    THEN [eligible |-> FALSE, explanation |-> "error",
                          limitation |->
                              IF items[i].kind = "node" THEN <<>> ELSE None]
                    ELSE items[i].res),
             items, i + 1)

(* the two loops of Node.calc over the results of the children, in order;   *)
(* an exception raised by a child ends the call with that exception.        *)
RECURSIVE CalcLoop(_, _, _, _)
CalcLoop(requires_all, acc, items, i) ==
    IF i > Len(items) THEN acc
    ELSE IF IsRaise(items[i].res) THEN items[i].res
    ELSE CalcLoop(requires_all,
                  Absorb(requires_all, acc, items[i].kind, items[i].name,
                         items[i].res),
                  items, i + 1)

(* the accumulator Node.calc starts from *)
Start(requires_all) ==
    [eligible |-> requires_all, explanation |-> <<>>, limitation |-> <<>>,
     subfindings |-> <<>>]

RECURSIVE NodeCalc(_, _, _)
NodeCalc(n, source_clause, source_data) ==
    LET kids == ChildNodes(n)
        own == RulesOf(n)
        items ==
            [i \in 1..Len(kids) |->
                [kind |-> "node", name |-> nodes[kids[i]].name,
                 res |-> NodeCalc(kids[i], source_clause, source_data)]]
            \o
            [i \in 1..Len(own) |->
                [kind |-> "rule", name |-> rules[own[i]].name,
                 res |-> RuleCalc(own[i], source_clause, source_data)]]
    IN  CalcLoop(nodes[n].requires_all, Start(nodes[n].requires_all),
                 items, 1)

----------------------------------------------------------------------------
(* Ruleset.flattened, Ruleset.values_from_json, Ruleset.calc *)

(* the records flattened yields for a payload that holds 'applicants', as   *)
(* values: a copy of the other fields, updated with the applicant's fields  *)
FlattenedValues(p) ==
    [i \in 1..Len(p.applicants) |->
        Update(Without(p, "applicants"), p.applicants[i])]

(* self.null_sources: source name -> fallback table *)
NullSources == [household |-> "household_default"]

(* the pair (source_clause, source_data) of a record: one value source per  *)
(* top-level field, then one fallback source per absent null source; with   *)
(* no source at all the unpacking of the zipped pairs raises.              *)
ValuesFromJson(raw) ==
    IF DOMAIN raw = {}
    THEN [raise |-> "ValueError"]
    ELSE [source_clause |->
              DOMAIN raw \cup {k \in DOMAIN NullSources : k \notin DOMAIN raw},
          source_data |-> raw]

CountsEveryRoot(name) == TRUE

(* whether a root's eligibility enters the overall flag *)
CountsRoot(name) == name # "categories"

(* the body of the loop of Ruleset.calc over the root Nodes *)
RootStep(acc, name, node_result) ==
    [eligible |->
         IF CountsRoot(name) THEN acc.eligible /\ node_result.eligible
         ELSE acc.eligible,
     requirements |-> Update(acc.requirements, name :> node_result)]

(* the loop of Ruleset.calc over the root Nodes for one applicant *)
RECURSIVE RootLoop(_, _, _, _)
RootLoop(acc, roots, i, vs) ==
    IF i > Len(roots) THEN acc
    ELSE Let(NodeCalc(roots[i], vs.source_clause, vs.source_data),
             LAMBDA node_result :
                 IF IsRaise(node_result) THEN node_result
                 ELSE RootLoop(RootStep(acc, nodes[roots[i]].name,
                                        node_result),
                               roots, i + 1, vs))

KeepCategories(requirements) == requirements

(* result['requirements'] after .pop('categories', {}) *)
PopCategories(requirements) == Without(requirements, "categories")

(* the end of the body of the applicant loop of Ruleset.calc: the report   *)
(* made of the roots' results                                               *)
Report(result) ==
    Let(IF "categories" \in DOMAIN result.requirements
        THEN result.requirements["categories"].subfindings
        ELSE <<>>,
        LAMBDA subfindings :
            [requirements |-> PopCategories(result.requirements),
             eligible |-> result.eligible,
             categories |->
                 [applicable |->
                      {key \in DOMAIN subfindings : subfindings[key].eligible},
                  findings |-> subfindings]])

(* the body of the applicant loop of Ruleset.calc: the applicant's report *)
ApplicantReport(applicant) ==
    Let(ValuesFromJson(applicant),
        LAMBDA vs :
            IF IsRaise(vs) THEN vs
            ELSE Let(RootLoop([eligible |-> TRUE, requirements |-> <<>>],
                              RootNodes, 1, vs),
                     LAMBDA result :
                         IF IsRaise(result) THEN result ELSE Report(result)))

(* the applicant loop of Ruleset.calc: applicant id -> report, or the       *)
(* exception that ended the call; reached counts the records the loop      *)
(* handed to values_from_json                                               *)
RECURSIVE ApplicantLoop(_, _, _)
ApplicantLoop(overall_result, recs, i) ==
    IF i > Len(recs)
    THEN [result |-> [returned |-> overall_result], reached |-> Len(recs)]
    ELSE Let(ApplicantReport(recs[i]),
             LAMBDA result :
                 IF IsRaise(result) THEN [result |-> result, reached |-> i]
                 ELSE ApplicantLoop(
                          Update(overall_result, recs[i].id :> result),
                          recs, i + 1))

(* Ruleset.calc(application): its outcome, the payload object it leaves,    *)
(* and the records it handed to values_from_json                            *)
RulesetCalc(application) ==
    IF "applicants" \notin DOMAIN application
    THEN [result |-> [raise |-> "KeyError", key |-> "applicants"],
          payload |-> application, compiled |-> <<>>]
    ELSE Let(FlattenedValues(application),
             LAMBDA recs :
                 Let(ApplicantLoop(<<>>, recs, 1),
                     LAMBDA out :
                         [result |-> out.result,
                          payload |-> Without(application, "applicants"),
                          compiled |-> SubSeq(recs, 1, out.reached)]))

----------------------------------------------------------------------------
(* Rule.sql, Node.sql, Ruleset.sql *)

(* Rule.sql: the statement of the Rule with every placeholder replaced by   *)
(* the quoted value; "of" names the Rule whose code the statement embeds    *)
RuleSql(r, source_clause, source_data) ==
    [of |-> rules[r].name, code |-> rules[r].code, with |-> source_clause,
     literals |-> [k \in DOMAIN source_data |-> [quoted |-> source_data[k]]]]

(* Node.sql: the statements of the Node's own Rules *)
NodeSql(n, source_clause, source_data) ==
    LET own == RulesOf(n)
    IN  [j \in 1..Len(own) |-> RuleSql(own[j], source_clause, source_data)]

(* the loop of Ruleset.sql over self.node_set.all() for one applicant *)
RECURSIVE NodeSqlLoop(_, _, _)
NodeSqlLoop(ns, i, vs) ==
    IF i > Len(ns) THEN <<>>
    ELSE NodeSql(ns[i], vs.source_clause, vs.source_data)
         \o NodeSqlLoop(ns, i + 1, vs)

(* the applicant loop of Ruleset.sql *)
RECURSIVE SqlLoop(_, _, _)
SqlLoop(yielded, recs, i) ==
    IF i > Len(recs) THEN [returned |-> yielded]
    ELSE LET vs == ValuesFromJson(recs[i])
         IN  IF IsRaise(vs) THEN vs
             ELSE SqlLoop(yielded \o NodeSqlLoop(RulesetNodes, 1, vs),
                          recs, i + 1)

(* Ruleset.sql(application), consumed to its end: what it yielded and the   *)
(* payload object it leaves                                                 *)
RulesetSql(application) ==
    IF "applicants" \notin DOMAIN application
    THEN [result |-> [raise |-> "KeyError", key |-> "applicants"],
          payload |-> application]
    ELSE [result |-> SqlLoop(<<>>, FlattenedValues(application), 1),
          payload |-> Without(application, "applicants")]

----------------------------------------------------------------------------
(* Ruleset.validate *)

(* the Ruleset's syntax schema: the payload must hold "applicants", every   *)
(* applicant an "id" and an "income"; "household_size" defaults to 1        *)
SchemaRequired == {"applicants"}
ApplicantRequired == {"id", "income"}
SchemaDefaults == [household_size |-> 1]

(* DefaultValidatingDraft4Validator(code).validate(applications): the       *)
(* payload with the declared defaults filled in, or the violation           *)
DefaultValidate(applications) ==
    IF /\ SchemaRequired \subseteq DOMAIN applications
       /\ \A j \in 1..Len(applications.applicants) :
             ApplicantRequired \subseteq DOMAIN applications.applicants[j]
    THEN Update(SchemaDefaults, applications)
    ELSE [raise |-> "ValidationError"]

(* Ruleset.validate(applications) *)
RulesetValidate(applications) ==
    LET filled == DefaultValidate(applications)
    IN  IF IsRaise(filled) THEN [raise |-> "ParseError"]
        ELSE [returned |-> filled]

----------------------------------------------------------------------------
(* Ruleset.flattened on objects *)

(* The object store maps an address to a dict (key -> value) or a list      *)
(* (position -> value).  A value is a number, [int |-> n], or a reference   *)
(* to an object, [ref |-> address].                                         *)

IsRef(v) == "ref" \in DOMAIN v

(* the addresses reachable from an object, itself included *)
RECURSIVE Reach(_, _)
Reach(h, a) ==
    {a} \cup UNION {Reach(h, h[a][k].ref) : k \in {j \in DOMAIN h[a] : IsRef(h[a][j])}}

(* the position of x in the sequence s *)
PosIn(s, x) == CHOOSE j \in 1..Len(s) : s[j] = x

(* copy.copy(a): a new dict with the values of the old *)
ShallowCopy(h, a) ==
    [heap |-> Append(h, h[a]), at |-> Len(h) + 1]

(* copy.deepcopy(a): a new object for every object reachable from a *)
DeepCopy(h, a) ==
    Let(Sorted(Reach(h, a)),
        LAMBDA olds :
            [heap |->
                 h \o [j \in 1..Len(olds) |->
                          [k \in DOMAIN h[olds[j]] |->
                              IF IsRef(h[olds[j]][k])
                              THEN [ref |-> Len(h)
                                            + PosIn(olds, h[olds[j]][k].ref)]
                              ELSE h[olds[j]][k]]],
             at |-> Len(h) + PosIn(olds, a)])

(* one turn of the loop of flattened: applicant_info = deepcopy(payload);   *)
(* applicant_info.update(applicant); the store after it and the address of  *)
(* the record yielded                                                       *)
FlattenedStep(h, payloadAt, applicantAt) ==
    Let(DeepCopy(h, payloadAt),
        LAMBDA copy :
            [heap |-> [copy.heap EXCEPT
                          ![copy.at] = Update(copy.heap[copy.at],
                                              h[applicantAt])],
             at |-> copy.at])

(* the value of an object: its keys with the values of what they hold *)
RECURSIVE Deep(_, _)
Deep(h, a) ==
    [k \in DOMAIN h[a] |->
        IF IsRef(h[a][k]) THEN [obj |-> Deep(h, h[a][k].ref)] ELSE h[a][k]]

(* the values of the records yielded so far *)
RecordValues(h, recs) == [j \in 1..Len(recs) |-> Deep(h, recs[j])]

----------------------------------------------------------------------------
(* SyntaxSchema *)

(* A schema object is [properties |-> dict, nested |-> list of schema       *)
(* objects]: the dict of its "properties" and the dicts further down in it. *)
(* A property is [format, ref, type]; an absent key holds Missing, and type *)
(* is [kind |-> "missing"], [kind |-> "str", names |-> <<t>>] or            *)
(* [kind |-> "list", names |-> the list].                                   *)

Missing == "(missing)"

(* walk(): the object, then the walk of each dict in it *)
RECURSIVE Walk(_)
Walk(node) ==
    LET RECURSIVE Each(_)
        Each(j) == IF j > Len(node.nested) THEN <<>>
                   ELSE Walk(node.nested[j]) \o Each(j + 1)
    IN  <<node>> \o Each(1)

_JSONSCHEMA_TO_PG_TYPES ==
    [integer |-> "integer", number |-> "numeric", string |-> "text",
     date |-> "date", boolean |-> "boolean"]

(* dict.get(key): the value as [type |-> v], or None *)
Get(d, key) == IF key \in DOMAIN d THEN [type |-> d[key]] ELSE None

(* [dt for dt in data_type if dt != 'null'] *)
DropNull(names) == SelectSeq(names, LAMBDA dt : dt # "null")

(* _col_data_type(col_data): [type |-> t], None, or the IndexError of       *)
(* data_type[0] on an empty list                                            *)
ColDataType(col_data) ==
    IF col_data.format = "date-time" THEN [type |-> "date"]
    ELSE IF col_data.ref = "#/definitions/ynexception" THEN [type |-> "text"]
    ELSE IF col_data.type.kind = "missing"
         THEN Get(_JSONSCHEMA_TO_PG_TYPES, "text")
    ELSE IF col_data.type.kind = "list"
         THEN Let(DropNull(col_data.type.names),
                  LAMBDA data_type :
                      IF Len(data_type) > 1
                      THEN Get(_JSONSCHEMA_TO_PG_TYPES, "text")
                      ELSE IF Len(data_type) = 0
                           THEN [raise |-> "IndexError"]
                           ELSE Get(_JSONSCHEMA_TO_PG_TYPES, data_type[1]))
    ELSE Get(_JSONSCHEMA_TO_PG_TYPES, col_data.type.names[1])

(* the inner loop of data_types over the properties of one object; the keys *)
(* of a dict differ, so the order of the items does not show in the result  *)
NodeTypes(result, properties) ==
    IF IsRaise(result) THEN result
    ELSE IF \E n \in DOMAIN properties : IsRaise(ColDataType(properties[n]))
         THEN [raise |-> "IndexError"]
    ELSE [returned |->
             Update(result.returned,
                    [n \in {m \in DOMAIN properties :
                               ColDataType(properties[m]) # None} |->
                        ColDataType(properties[n]).type])]

(* data_types(): the result dict over the walk, later objects overwriting *)
RECURSIVE TypesLoop(_, _, _)
TypesLoop(nodes_, j, result) ==
    IF j > Len(nodes_) THEN result
    ELSE TypesLoop(nodes_, j + 1, NodeTypes(result, nodes_[j].properties))

DataTypesOf(code) == TypesLoop(Walk(code), 1, [returned |-> <<>>])

----------------------------------------------------------------------------
(* Initial values *)

(* the variables a specification leaves alone *)
IdleTree ==
    /\ nodes = <<>>
    /\ rules = <<>>
    /\ payload = <<>>
    /\ validated = FALSE
    /\ calls = <<>>
    /\ compiled = <<>>

IdleFlat ==
    /\ heap = <<>>
    /\ records = <<>>
    /\ popped = <<>>
    /\ before = <<>>
    /\ lastMut = 0

IdleTypes ==
    /\ schema = <<>>
    /\ index = <<>>

(* a parent chain is acyclic: here a parent has a smaller primary key *)
Parents ==
    {p \in [1..MaxNodes -> {NullId} \cup (1..MaxNodes)] :
        \A n \in 1..MaxNodes : p[n] < n}

(* the Rules' Nodes; Rules are numbered in the order of their Nodes *)
Placements ==
    {rn \in [1..MaxRules -> 1..MaxNodes] :
        \A r \in 1..MaxRules : \A q \in 1..MaxRules : r < q => rn[r] <= rn[q]}

(* the Node table of a Ruleset: a root holds the ruleset key and no parent, *)
(* a child holds a parent and, with fk, the ruleset key as well; cat is the *)
(* Node named "categories", if any                                          *)
NodeTable(p, cat, ra, fk) ==
    [n \in DOMAIN p |->
        [name |-> IF n = cat THEN "categories" ELSE "node" \o ToString(n),
         parent |-> p[n],
         ruleset |-> IF p[n] = NullId \/ fk[n] THEN RulesetId ELSE NullId,
         requires_all |-> ra[n]]]

RuleTable(rn, rc) ==
    [r \in DOMAIN rn |->
        [name |-> "rule" \o ToString(r), code |-> rc[r], node |-> rn[r]]]

(* k applicants; every second one has no income *)
Applicants(k) == [i \in 1..k |-> [id |-> i, income |-> i % 2]]

InitTree ==
    /\ \E p \in Parents, cat \in {NullId, 1, MaxNodes},
          ra \in [1..MaxNodes -> BOOLEAN] :
           nodes = NodeTable(p, cat, ra, [n \in 1..MaxNodes |-> FALSE])
    /\ \E rn \in Placements, rc \in [1..MaxRules -> RuleCodes] :
           rules = RuleTable(rn, rc)
    /\ payload = [applicants |-> Applicants(MaxApplicants)]
    /\ validated = FALSE
    /\ calls = <<>>
    /\ compiled = <<>>
    /\ IdleFlat
    /\ IdleTypes

----------------------------------------------------------------------------
(* Actions *)

(* ruleset.calc(application) on the payload object *)
Calc ==
    /\ Len(calls) < MaxCalls
    /\ \E out \in {RulesetCalc(payload)} :
           /\ payload' = out.payload
           /\ calls' = Append(calls, [op |-> "calc", arg |-> payload,
                                      result |-> out.result])
           /\ compiled' =
                  compiled \o [i \in 1..Len(out.compiled) |->
                                  [record |-> out.compiled[i],
                                   validated |-> validated]]
    /\ UNCHANGED <<nodes, rules, validated>>
    /\ UNCHANGED flatVars
    /\ UNCHANGED typeVars

NextTree == calls = <<>> /\ Calc

SpecTree == InitTree /\ [][NextTree]_vars

(* ruleset.validate(application) on the payload object; the validator      *)
(* fills the defaults into the object it is given                           *)
Validate ==
    /\ Len(calls) < MaxCalls
    /\ LET out == RulesetValidate(payload)
       IN  /\ payload' = IF IsRaise(out) THEN payload ELSE out.returned
           /\ validated' = IF IsRaise(out) THEN validated ELSE TRUE
           /\ calls' = Append(calls, [op |-> "validate", arg |-> payload,
                                      result |-> out])
    /\ UNCHANGED <<nodes, rules, compiled>>
    /\ UNCHANGED flatVars
    /\ UNCHANGED typeVars

(* the statements of ruleset.sql(application) on the payload object *)
Sql ==
    /\ Len(calls) < MaxCalls
    /\ LET out == RulesetSql(payload)
       IN  /\ payload' = out.payload
           /\ calls' = Append(calls, [op |-> "sql", arg |-> payload,
                                      result |-> out.result])
    /\ UNCHANGED <<nodes, rules, validated, compiled>>
    /\ UNCHANGED flatVars
    /\ UNCHANGED typeVars

(* the request payloads: up to MaxApplicants applicants, each with an       *)
(* income or without, the payload with or without the optional             *)
(* household_size                                                           *)
ApplicantFields == {[income |-> 0], [income |-> 1], <<>>}

ApplicantLists == UNION {[1..k -> ApplicantFields] : k \in 0..MaxApplicants}

WithIds(as) == [j \in DOMAIN as |-> Update(as[j], [id |-> j])]

Payloads ==
    {[applicants |-> WithIds(as)] : as \in ApplicantLists}
    \cup {[applicants |-> WithIds(as), household_size |-> 3] :
             as \in ApplicantLists}

(* a Ruleset of one root requiring any of two Rules and a child Node, which *)
(* requires all of its one Rule                                             *)
Init ==
    /\ nodes = NodeTable(<<NullId, 1>>, NullId, <<FALSE, TRUE>>,
                         <<FALSE, FALSE>>)
    /\ rules = RuleTable(<<1, 1, 2>>,
                         <<"pass_until", "income_test", "income_test">>)
    /\ payload \in Payloads
    /\ validated = FALSE
    /\ calls = <<>>
    /\ compiled = <<>>
    /\ IdleFlat
    /\ IdleTypes

Next == Validate \/ Calc \/ Sql

Spec == Init /\ [][Next]_vars

InitSql ==
    /\ \E p \in Parents, fk \in [1..MaxNodes -> BOOLEAN] :
           nodes = NodeTable(p, NullId, [n \in 1..MaxNodes |-> TRUE], fk)
    /\ \E rn \in Placements, rc \in [1..MaxRules -> RuleCodes] :
           rules = RuleTable(rn, rc)
    /\ \E k \in 1..MaxApplicants : payload = [applicants |-> Applicants(k)]
    /\ validated = FALSE
    /\ calls = <<>>
    /\ compiled = <<>>
    /\ IdleFlat
    /\ IdleTypes

NextSql == calls = <<>> /\ Sql

SpecSql == InitSql /\ [][NextSql]_vars

(* A parsed request payload of k applicants: the payload dict at 1 holds    *)
(* "state", the dict "household" at 2 and the list "applicants" at 3; the   *)
(* applicant j is the dict at 2j+2, which holds "id", the dict "income" at  *)
(* 2j+3 and, where ov[j], a "state" of its own.  No two objects share one.  *)
ParsedPayload(k, ov) ==
    <<[state |-> [int |-> 7], household |-> [ref |-> 2],
       applicants |-> [ref |-> 3]],
      [size |-> [int |-> 4]],
      [j \in 1..k |-> [ref |-> 2 * j + 2]]>>
    \o [a \in 1..(2 * k) |->
           IF a % 2 = 1
           THEN IF ov[(a + 1) \div 2]
                THEN [id |-> [int |-> (a + 1) \div 2],
                      income |-> [ref |-> a + 4],
                      state |-> [int |-> 8]]
                ELSE [id |-> [int |-> (a + 1) \div 2],
                      income |-> [ref |-> a + 4]]
           ELSE [amount |-> [int |-> 5]]]

InitFlat ==
    /\ IdleTree
    /\ \E k \in 1..MaxApplicants : \E ov \in [1..k -> BOOLEAN] :
           heap = ParsedPayload(k, ov)
    /\ records = <<>>
    /\ popped = <<>>
    /\ before = <<>>
    /\ lastMut = 0
    /\ IdleTypes

(* the first step of the generator: applicants = payload.pop('applicants') *)
Pop ==
    /\ popped = <<>>
    /\ popped' = heap[1].applicants
    /\ heap' = [heap EXCEPT ![1] = Without(heap[1], "applicants")]
    /\ UNCHANGED <<records, before, lastMut>>
    /\ UNCHANGED treeVars
    /\ UNCHANGED typeVars

(* the generator yields the record of the next applicant *)
Yield ==
    /\ popped # <<>>
    /\ Len(records) < Len(heap[popped.ref])
    /\ \E step \in {FlattenedStep(heap, 1,
                                    heap[popped.ref][Len(records) + 1].ref)} :
           /\ heap' = step.heap
           /\ records' = Append(records, step.at)
    /\ before' = RecordValues(heap, records)
    /\ lastMut' = 0
    /\ UNCHANGED popped
    /\ UNCHANGED treeVars
    /\ UNCHANGED typeVars

(* the consumer writes a number under a key of a dict that it reaches from  *)
(* the record j                                                             *)
Mutate ==
    /\ \E j \in 1..Len(records) : \E a \in Reach(heap, records[j]) :
       \E k \in {x \in DOMAIN heap[a] : ~IsRef(heap[a][x])} :
           /\ heap[a][k] # [int |-> 99]
           /\ heap' = [heap EXCEPT ![a][k] = [int |-> 99]]
           /\ lastMut' = j
    /\ before' = RecordValues(heap, records)
    /\ UNCHANGED <<records, popped>>
    /\ UNCHANGED treeVars
    /\ UNCHANGED typeVars

NextFlat == Pop \/ Yield \/ Mutate

SpecFlat == InitFlat /\ [][NextFlat]_vars

ColumnNames == {"dob", "income"}

DeclaredTypes ==
    {[kind |-> "missing", names |-> <<>>]}
    \cup {[kind |-> "str", names |-> <<t>>] : t \in {"string", "integer", "object"}}
    \cup {[kind |-> "list", names |-> l] :
             l \in {<<"string", "null">>, <<"string", "integer">>, <<"null">>}}

Columns ==
    [format : {Missing, "date-time"},
     ref : {Missing, "#/definitions/ynexception"},
     type : DeclaredTypes]

(* the "properties" dicts over some of the column names *)
Properties(names) ==
    UNION {[S -> Columns] : S \in (SUBSET names) \ {{}}}

InitTypes ==
    /\ IdleTree
    /\ IdleFlat
    /\ \E root \in Properties(ColumnNames) :
       \E inner \in {<<>>} \cup {<<[properties |-> q, nested |-> <<>>]>> :
                                  q \in Properties({"dob"})} :
           schema = [properties |-> root, nested |-> inner]
    /\ index = <<>>

(* schema.data_types() *)
DataTypes ==
    /\ index = <<>>
    /\ index' = DataTypesOf(schema)
    /\ UNCHANGED schema
    /\ UNCHANGED treeVars
    /\ UNCHANGED flatVars

NextTypes == DataTypes

SpecTypes == InitTypes /\ [][NextTypes]_vars

----------------------------------------------------------------------------
(* Claims about the rule tree, checked under SpecTree *)

(* the calls of Ruleset.calc that returned *)
Returned == {i \in 1..Len(calls) : ~IsRaise(calls[i].result)}

IsRoot(n) == nodes[n].ruleset = RulesetId /\ nodes[n].parent = NullId

Kids(n) == {c \in NodeIds : nodes[c].parent = n}

Own(n) == {r \in RuleIds : rules[r].node = n}

(* the record flattened made of the applicant with this id *)
RecordOf(application, id) ==
    CHOOSE rec \in {FlattenedValues(application)[j] :
                       j \in 1..Len(application.applicants)} : rec.id = id

(* for every root Node but "categories", its stored result; for the root    *)
(* "categories", the stored results of its child Nodes                      *)
HoldsOfStored(rep, P(_, _)) ==
    \A n \in NodeIds :
        IsRoot(n) =>
            IF nodes[n].name = "categories"
            THEN \A c \in Kids(n) :
                     P(c, rep.categories.findings[nodes[c].name])
            ELSE P(n, rep.requirements[nodes[n].name])

RECURSIVE EligibleAsPolicy(_, _)
EligibleAsPolicy(n, res) ==
    LET flags ==
            {res.subfindings[nodes[c].name].eligible : c \in Kids(n)}
            \cup {res.subfindings[rules[r].name].eligible : r \in Own(n)}
    IN  /\ res.eligible =
              IF nodes[n].requires_all THEN FALSE \notin flags
              ELSE TRUE \in flags
        /\ \A c \in Kids(n) :
              EligibleAsPolicy(c, res.subfindings[nodes[c].name])

(* C1: in every result Node.calc returned, at every depth, eligible is the  *)
(* AND of the eligible flags of the direct children (child Nodes and own    *)
(* Rules) when requires_all is set and their OR when it is not: true,       *)
(* respectively false, for a Node with no children.                         *)
C1_EligibilityIsAndOr ==
    \A i \in Returned : \A id \in DOMAIN calls[i].result.returned :
        HoldsOfStored(calls[i].result.returned[id], EligibleAsPolicy)

(* a chain of three Nodes was evaluated: the lowest has no children and     *)
(* requires all, so it is eligible, and its parent, requiring any, is too   *)
C1_Witness ==
    \E i \in Returned : \E id \in DOMAIN calls[i].result.returned :
    \E a \in NodeIds : \E b \in Kids(a) : \E c \in Kids(b) :
        /\ IsRoot(a) /\ nodes[a].name # "categories"
        /\ Kids(c) = {} /\ Own(c) = {} /\ Own(b) = {}
        /\ nodes[c].requires_all /\ ~nodes[b].requires_all
        /\ LET res == calls[i].result.returned[id].requirements[nodes[a].name]
                        .subfindings[nodes[b].name]
           IN  res.eligible /\ res.subfindings[nodes[c].name].eligible

(* a limitation that is absent: None for a Rule, no entry for a Node *)
Absent(kind, limitation) ==
    IF kind = "node" THEN limitation = <<>> ELSE limitation = None

RECURSIVE LimitationsAsClaimed(_, _)
LimitationsAsClaimed(n, res) ==
    LET kids == ChildNodes(n)
        own == RulesOf(n)
        children ==
            [j \in 1..Len(kids) |->
                [kind |-> "node", res |-> res.subfindings[nodes[kids[j]].name]]]
            \o
            [j \in 1..Len(own) |->
                [kind |-> "rule", res |-> res.subfindings[rules[own[j]].name]]]
        kept == SelectSeq(children,
                          LAMBDA ch : ch.res.eligible
                                      /\ ~Absent(ch.kind, ch.res.limitation))
    IN  /\ res.limitation =
              [j \in 1..Len(kept) |-> LimEntry(kept[j].kind, kept[j].res)]
        /\ \A c \in Kids(n) :
              LimitationsAsClaimed(c, res.subfindings[nodes[c].name])

(* C2: in every result Node.calc returned, the limitation list holds, in    *)
(* the order of the children, the limitations of exactly the direct         *)
(* children that are eligible and whose limitation is not absent; an        *)
(* ineligible child never contributes, whatever requires_all is.            *)
C2_LimitationsOfEligibleOnly ==
    \A i \in Returned : \A id \in DOMAIN calls[i].result.returned :
        HoldsOfStored(calls[i].result.returned[id], LimitationsAsClaimed)

(* a Node has an ineligible Rule with a populated limitation beside a       *)
(* child that contributes one *)
C2_Witness ==
    \E i \in Returned : \E id \in DOMAIN calls[i].result.returned :
    \E n \in NodeIds : \E r \in Own(n) :
        /\ IsRoot(n) /\ nodes[n].name # "categories"
        /\ LET res == calls[i].result.returned[id].requirements[nodes[n].name]
           IN  /\ ~res.subfindings[rules[r].name].eligible
               /\ res.subfindings[rules[r].name].limitation # None
               /\ Len(res.limitation) > 0

(* C3: in every applicant report of Ruleset.calc, requirements has no key   *)
(* "categories", and categories.applicable is the set of the names of the   *)
(* eligible immediate subfindings of the root Node named "categories",      *)
(* categories.findings being its subfindings; both are empty when there is  *)
(* no such root.                                                            *)
C3_CategoriesRollUp ==
    \A i \in Returned : \A id \in DOMAIN calls[i].result.returned :
        LET rep == calls[i].result.returned[id]
            vs == ValuesFromJson(RecordOf(calls[i].arg, id))
            cats == {n \in NodeIds : IsRoot(n) /\ nodes[n].name = "categories"}
        IN  /\ "categories" \notin DOMAIN rep.requirements
            /\ IF cats = {}
               THEN rep.categories.applicable = {}
                    /\ rep.categories.findings = <<>>
               ELSE \A n \in cats :
                      LET sub == NodeCalc(n, vs.source_clause,
                                          vs.source_data).subfindings
                      IN  /\ rep.categories.findings = sub
                          /\ rep.categories.applicable =
                                 {k \in DOMAIN sub : sub[k].eligible}

(* a report whose "categories" root has an eligible and an ineligible       *)
(* subfinding *)
C3_Witness ==
    \E i \in Returned : \E id \in DOMAIN calls[i].result.returned :
        LET rep == calls[i].result.returned[id]
        IN  /\ \E n \in NodeIds : IsRoot(n) /\ nodes[n].name = "categories"
            /\ rep.categories.applicable # {}
            /\ rep.categories.applicable # DOMAIN rep.categories.findings

(* C4: in every applicant report of Ruleset.calc, requirements holds the    *)
(* results of the root Nodes not named "categories", and eligible is the    *)
(* AND of their eligible flags: true when there is none, and whatever the   *)
(* "categories" root's eligibility is.                                      *)
C4_OverallIsAndOfRoots ==
    \A i \in Returned : \A id \in DOMAIN calls[i].result.returned :
        LET rep == calls[i].result.returned[id]
            roots == {n \in NodeIds :
                        IsRoot(n) /\ nodes[n].name # "categories"}
        IN  /\ DOMAIN rep.requirements = {nodes[n].name : n \in roots}
            /\ rep.eligible =
                  \A n \in roots : rep.requirements[nodes[n].name].eligible

(* an applicant is eligible overall while the "categories" root, evaluated  *)
(* beside another root, is not *)
C4_Witness ==
    \E i \in Returned : \E id \in DOMAIN calls[i].result.returned :
    \E n \in NodeIds :
        LET rep == calls[i].result.returned[id]
            vs == ValuesFromJson(RecordOf(calls[i].arg, id))
        IN  /\ IsRoot(n) /\ nodes[n].name = "categories"
            /\ ~NodeCalc(n, vs.source_clause, vs.source_data).eligible
            /\ rep.eligible
            /\ DOMAIN rep.requirements # {}

(* the Rules evaluated for a record whose query fails on it *)
FailingRules(rec) ==
    {r \in RuleIds : IsRaise(Execute(rules[r].code, rec))}

(* C5: a call of Ruleset.calc during which the query of a Rule fails for    *)
(* some applicant ends with that Rule's DataError and returns no report;    *)
(* no Node.calc on the way turns the failure into a result.  A call during  *)
(* which no query fails returns.                                            *)
C5_FailurePropagates ==
    \A i \in 1..Len(calls) :
        (calls[i].op = "calc" /\ "applicants" \in DOMAIN calls[i].arg) =>
            LET recs == FlattenedValues(calls[i].arg)
                failing == UNION {FailingRules(recs[j]) : j \in 1..Len(recs)}
            IN  IF failing = {}
                THEN ~IsRaise(calls[i].result)
                ELSE /\ IsRaise(calls[i].result)
                     /\ calls[i].result.raise = "DataError"
                     /\ calls[i].result.rule \in
                            {rules[r].name : r \in failing}

(* the query of a Rule two levels below a root failed, under Nodes that     *)
(* require any child only, and the call ended with the DataError            *)
C5_Witness ==
    \E i \in 1..Len(calls) : \E r \in RuleIds :
        /\ IsRaise(calls[i].result)
        /\ calls[i].result.raise = "DataError"
        /\ calls[i].result.rule = rules[r].name
        /\ nodes[rules[r].node].parent # NullId
        /\ ~nodes[rules[r].node].requires_all
        /\ ~nodes[nodes[rules[r].node].parent].requires_all

----------------------------------------------------------------------------
(* Claims about the pipeline of Ruleset.calc, checked under Spec *)

(* C6: every record handed to values_from_json comes from a payload that    *)
(* Ruleset.validate has passed, and holds the schema's declared defaults.   *)
C6_ValidatedBeforeCompiled ==
    \A j \in 1..Len(compiled) :
        /\ compiled[j].validated
        /\ DOMAIN SchemaDefaults \subseteq DOMAIN compiled[j].record

(* C7: of two calls of Ruleset.calc in succession on the same payload, the  *)
(* second has the outcome of the first.                                     *)
C7_SecondCalcSameOutcome ==
    \A i \in 1..Len(calls) : \A j \in 1..Len(calls) :
        (j = i + 1 /\ calls[i].op = "calc" /\ calls[j].op = "calc") =>
            calls[j].result = calls[i].result

----------------------------------------------------------------------------
(* Claims about Ruleset.sql, checked under SpecSql *)

(* whether the Node belongs to the Ruleset's tree: it is a root of the      *)
(* Ruleset or the child of a Node that belongs to it                        *)
RECURSIVE InTree(_)
InTree(n) ==
    IF nodes[n].parent = NullId THEN nodes[n].ruleset = RulesetId
    ELSE InTree(nodes[n].parent)

(* C8: for every applicant of the payload, Ruleset.sql yields the statement *)
(* of every Rule of the Ruleset's tree exactly once, at whatever depth the  *)
(* Rule's Node is.                                                          *)
C8_EveryRuleRenderedOnce ==
    \A i \in 1..Len(calls) :
        (calls[i].op = "sql" /\ ~IsRaise(calls[i].result)) =>
            \A j \in 1..Len(calls[i].arg.applicants) :
            \A r \in RuleIds :
                InTree(rules[r].node) =>
                    Cardinality(
                        {k \in 1..Len(calls[i].result.returned) :
                            /\ calls[i].result.returned[k].of = rules[r].name
                            /\ calls[i].result.returned[k].literals.id =
                                  [quoted |-> calls[i].arg.applicants[j].id]})
                    = 1

----------------------------------------------------------------------------
(* Claims about Ruleset.flattened, checked under SpecFlat *)

(* C9: no step changes the value of a record other than the record the      *)
(* consumer mutated through, so no two records share an object; and a       *)
(* record is yielded holding the payload's other fields overlaid by its     *)
(* applicant's fields, the applicant's value standing where both hold a key.*)
C9_RecordsIndependent ==
    /\ \A j \in 1..Len(before) :
          j # lastMut => Deep(heap, records[j]) = before[j]
    /\ Len(records) > Len(before) =>
          Deep(heap, records[Len(records)]) =
              Update(Deep(heap, 1),
                     Deep(heap, heap[popped.ref][Len(records)].ref))

(* two records were yielded, the second with a "state" of its own, and the  *)
(* consumer then wrote into the household of the first: the second keeps    *)
(* its household and its state                                              *)
C9_Witness ==
    /\ Len(records) >= 2
    /\ lastMut = 1
    /\ heap[heap[records[1]].household.ref].size = [int |-> 99]
    /\ heap[heap[records[2]].household.ref].size = [int |-> 4]
    /\ heap[records[2]].state = [int |-> 8]
    /\ heap[1].state = [int |-> 7]

----------------------------------------------------------------------------
(* Claims about the type index, checked under SpecTypes *)

(* the names that one object of the walk alone declares, and the property   *)
(* that such a name has                                                     *)
DeclaredOnce ==
    {name \in ColumnNames :
        Cardinality({j \in 1..Len(Walk(schema)) :
                        name \in DOMAIN Walk(schema)[j].properties}) = 1}

PropertyOf(name) ==
    Walk(schema)[CHOOSE j \in 1..Len(Walk(schema)) :
                    name \in DOMAIN Walk(schema)[j].properties].properties[name]

(* the type that the stated precedence gives a property *)
ByPrecedence(col) ==
    IF col.format = "date-time" THEN [type |-> "date"]
    ELSE IF col.ref = "#/definitions/ynexception" THEN [type |-> "text"]
    ELSE IF Len(DropNull(col.type.names)) > 1 THEN [type |-> "text"]
    ELSE IF Len(DropNull(col.type.names)) = 0 THEN None
    ELSE Get(_JSONSCHEMA_TO_PG_TYPES, DropNull(col.type.names)[1])

(* C10: an index that data_types returns holds, for every property that    *)
(* the schema declares once, the type of the precedence: date for format    *)
(* date-time, else text for the exception reference, else text for a union  *)
(* of more than one type other than null, else the table's type of the one  *)
(* type left, and no entry for a type that the table lacks.                 *)
C10_TypeByPrecedence ==
    (index # <<>> /\ ~IsRaise(index)) =>
        \A name \in DeclaredOnce :
            Get(index.returned, name) = ByPrecedence(PropertyOf(name))

====
